---- MODULE Spec2Model ----
(***************************************************************************)
(* Session affinity ("sticky sessions") of the round-robin load balancer:  *)
(* roundrobin/stickysessions.go (StickySession.GetBackend, StickBackend,   *)
(* getBackendURL, getCleanServerURL, hash) together with the parts of the  *)
(* load balancer that call it.                                             *)
(*                                                                         *)
(* Strings are sequences of one-character strings, so that                 *)
(* strings.Contains, url.Parse, URL.String and the FNV-1a digest are       *)
(* computed on the characters, as the code computes them.                  *)
(***************************************************************************)
EXTENDS Integers, Sequences, FiniteSets, TLC

(***************************************************************************)
(* Characters and bytes                                                    *)
(***************************************************************************)

\* The printable ASCII characters in code order; AsciiTable[i] has code i + 31
\* (the three characters a TLA+ string cannot hold are spelled out; no URL or
\* token of the model uses them).
AsciiTable ==
  <<
     " ", "!", "<dquote>", "#", "$", "%", "&", "'", "(", ")", "*", "+", ",", "-", ".", "/",
     "0", "1", "2", "3", "4", "5", "6", "7", "8", "9", ":", ";", "<", "=", ">", "?",
     "@", "A", "B", "C", "D", "E", "F", "G", "H", "I", "J", "K", "L", "M", "N", "O",
     "P", "Q", "R", "S", "T", "U", "V", "W", "X", "Y", "Z", "[", "<backslash>", "]", "^", "_",
     "<backtick>", "a", "b", "c", "d", "e", "f", "g", "h", "i", "j", "k", "l", "m", "n", "o",
     "p", "q", "r", "s", "t", "u", "v", "w", "x", "y", "z", "{", "|", "}", "~"
  >>

\* The byte of a character, as Go's string indexing yields it.
Ascii(c) == 31 + (CHOOSE i \in 1..Len(AsciiTable) : AsciiTable[i] = c)

\* strings.ToLower on one ASCII character.
ToLowerChar(c) ==
  IF Ascii(c) >= 65 /\ Ascii(c) <= 90 THEN AsciiTable[Ascii(c) + 32 - 31] ELSE c

\* strings.ToLower
ToLower(s) == [i \in 1..Len(s) |-> ToLowerChar(s[i])]

\* strings.HasPrefix(s, p)
HasPrefix(s, p) == Len(s) >= Len(p) /\ SubSeq(s, 1, Len(p)) = p

\* strings.Index(s, p): the first 1-based position of p in s, 0 when absent.
\* (Go returns a 0-based index and -1; positions here are shifted by one.)
Index(s, p) ==
  LET hits == {i \in 1..(Len(s) - Len(p) + 1) : SubSeq(s, i, i + Len(p) - 1) = p}
  IN IF hits = {} THEN 0 ELSE CHOOSE i \in hits : \A j \in hits : i <= j

\* strings.LastIndex(s, p), 1-based, 0 when absent.
LastIndex(s, p) ==
  LET hits == {i \in 1..(Len(s) - Len(p) + 1) : SubSeq(s, i, i + Len(p) - 1) = p}
  IN IF hits = {} THEN 0 ELSE CHOOSE i \in hits : \A j \in hits : i >= j

\* strings.Contains(s, p)
Contains(s, p) == Index(s, p) # 0

\* strings.Count(s, p) for a one-character p
Count(s, p) == Cardinality({i \in 1..Len(s) : <<s[i]>> = p})

(***************************************************************************)
(* fnv1a.HashString64 and fmt.Sprintf("%x", ...)                            *)
(* A uint64 is four chunks of 20 bits (the last of 4), least significant   *)
(* first, so that every intermediate product stays below 2^31 and the      *)
(* arithmetic modulo 2^64 is exact.                                        *)
(***************************************************************************)

Chunk == 1048576  \* 2^20

\* offset64 = 14695981039346656037 = 0xcbf29ce484222325
Offset64 == <<140069, 936002, 783004, 12>>

\* prime64 = 1099511628211 = 2^40 + 435
PrimeLow == 435

RECURSIVE Xor8(_, _)
\* a ^ b on two bytes
Xor8(a, b) ==
  IF a = 0 THEN b
  ELSE IF b = 0 THEN a
  ELSE 2 * Xor8(a \div 2, b \div 2) + (((a % 2) + (b % 2)) % 2)

\* h ^ uint64(byte): only the low byte changes.
XorByte(h, byte) ==
  [h EXCEPT ![1] = (h[1] \div 256) * 256 + Xor8(h[1] % 256, byte)]

\* h * prime64 modulo 2^64: h * 435 chunk by chunk with carries, plus h * 2^40,
\* which adds chunk 1 to chunk 3 and the low 4 bits of chunk 2 to chunk 4.
MulPrime(h) ==
  LET t1 == h[1] * PrimeLow
      t2 == h[2] * PrimeLow + (t1 \div Chunk)
      t3 == h[3] * PrimeLow + (t2 \div Chunk) + h[1]
      t4 == h[4] * PrimeLow + (t3 \div Chunk) + (h[2] % 16)
  IN <<t1 % Chunk, t2 % Chunk, t3 % Chunk, t4 % 16>>

RECURSIVE HashString64From(_, _, _)
\* for each byte: h ^= byte; h *= prime64
HashString64From(s, i, h) ==
  IF i > Len(s) THEN h
  ELSE HashString64From(s, i + 1, MulPrime(XorByte(h, Ascii(s[i]))))

HashString64(s) == HashString64From(s, 1, Offset64)

HexDigits == <<"0","1","2","3","4","5","6","7","8","9","a","b","c","d","e","f">>

RECURSIVE StripZeros(_)
StripZeros(s) ==
  IF Len(s) > 1 /\ s[1] = "0" THEN StripZeros(Tail(s)) ELSE s

\* The hex digit of weight 16^k in a chunk.
HexAt(c, k) ==
  HexDigits[((c \div (IF k = 0 THEN 1 ELSE IF k = 1 THEN 16 ELSE IF k = 2 THEN 256
                      ELSE IF k = 3 THEN 4096 ELSE 65536)) % 16) + 1]

\* fmt.Sprintf("%X", v): the digits in upper case.
FormatHex_Upper(h) ==
  StripZeros([k \in 1..16 |->
     <<"0","1","2","3","4","5","6","7","8","9","A","B","C","D","E","F">>[
        ((IF k = 1 THEN h[4]
          ELSE h[4 - ((k + 3) \div 5)] \div
               (IF (k - 2) % 5 = 0 THEN 65536 ELSE IF (k - 2) % 5 = 1 THEN 4096
                ELSE IF (k - 2) % 5 = 2 THEN 256 ELSE IF (k - 2) % 5 = 3 THEN 16 ELSE 1))
         % 16) + 1]])

\* fmt.Sprintf("%x", v): lowercase hex, most significant digit first, no
\* leading zeros.
FormatHex(h) ==
  StripZeros(<<HexAt(h[4], 0)>>
             \o [k \in 1..5 |-> HexAt(h[3], 5 - k)]
             \o [k \in 1..5 |-> HexAt(h[2], 5 - k)]
             \o [k \in 1..5 |-> HexAt(h[1], 5 - k)])


(***************************************************************************)
(* net/url: the URL value, URL.String and url.Parse                        *)
(* A URL carries the fields the code and its tests set, and the fragment:  *)
(* Scheme, User, Host, Path, ForceQuery, RawQuery and Fragment.  User is   *)
(* Go's *Userinfo: present or nil, with a username.  The alphabet of the   *)
(* model holds no character that percent-encoding rewrites, so escape and  *)
(* unescape change nothing on it; the characters url.Parse rejects are     *)
(* rejected here as well.                                                  *)
(***************************************************************************)

\* (*url.Userinfo)(nil), and url.User(name)
NoUser == [present |-> FALSE, username |-> <<>>]
User(name) == [present |-> TRUE, username |-> name]

\* strings.Cut(s, sep)
Cut(s, sep) ==
  LET i == Index(s, sep)
  IN IF i = 0 THEN [before |-> s, after |-> <<>>, found |-> FALSE]
     ELSE [before |-> SubSeq(s, 1, i - 1),
           after  |-> SubSeq(s, i + Len(sep), Len(s)),
           found  |-> TRUE]

IsLetter(c) == (Ascii(c) >= 97 /\ Ascii(c) <= 122) \/ (Ascii(c) >= 65 /\ Ascii(c) <= 90)
IsDigit(c) == Ascii(c) >= 48 /\ Ascii(c) <= 57

\* func (u *URL) String() string
String(u) ==
  LET scheme == IF u.Scheme # <<>> THEN u.Scheme \o <<":">> ELSE <<>>
      slashes == IF (u.Scheme # <<>> \/ u.Host # <<>> \/ u.User.present)
                    /\ (u.Host # <<>> \/ u.Path # <<>> \/ u.User.present)
                 THEN <<"/", "/">> ELSE <<>>
      userinfo == IF (u.Scheme # <<>> \/ u.Host # <<>> \/ u.User.present) /\ u.User.present
                  THEN u.User.username \o <<"@">> ELSE <<>>
      host == IF u.Scheme # <<>> \/ u.Host # <<>> \/ u.User.present THEN u.Host ELSE <<>>
      sep == IF u.Path # <<>> /\ u.Path[1] # "/" /\ u.Host # <<>> THEN <<"/">> ELSE <<>>
      query == IF u.ForceQuery \/ u.RawQuery # <<>> THEN <<"?">> \o u.RawQuery ELSE <<>>
      fragment == IF u.Fragment # <<>> THEN <<"#">> \o u.Fragment ELSE <<>>
  IN scheme \o slashes \o userinfo \o host \o sep \o u.Path \o query \o fragment

\* The zero URL, returned beside a parse error.
ZeroURL ==
  [Scheme |-> <<>>, User |-> NoUser, Host |-> <<>>, Path |-> <<>>,
   ForceQuery |-> FALSE, RawQuery |-> <<>>, Fragment |-> <<>>]

RECURSIVE getScheme(_, _)
\* func getScheme(rawURL string) (scheme, path string, err error), scanning
\* from position i.
getScheme(rawURL, i) ==
  IF i > Len(rawURL) THEN [scheme |-> <<>>, rest |-> rawURL, err |-> FALSE]
  ELSE LET c == rawURL[i]
       IN IF IsLetter(c) THEN getScheme(rawURL, i + 1)
          ELSE IF IsDigit(c) \/ c \in {"+", "-", "."}
               THEN IF i = 1 THEN [scheme |-> <<>>, rest |-> rawURL, err |-> FALSE]
                    ELSE getScheme(rawURL, i + 1)
          ELSE IF c = ":"
               THEN IF i = 1 THEN [scheme |-> <<>>, rest |-> <<>>, err |-> TRUE]
                    ELSE [scheme |-> SubSeq(rawURL, 1, i - 1),
                          rest |-> SubSeq(rawURL, i + 1, Len(rawURL)),
                          err |-> FALSE]
          ELSE [scheme |-> <<>>, rest |-> rawURL, err |-> FALSE]

\* func validUserinfo(s string) bool
validUserinfo(s) ==
  \A i \in 1..Len(s) :
     IsLetter(s[i]) \/ IsDigit(s[i])
     \/ s[i] \in {"-", ".", "_", ":", "~", "!", "$", "&", "'", "(", ")", "*",
                  "+", ",", ";", "=", "%", "@"}

\* func validOptionalPort(port string) bool
validOptionalPort(port) ==
  port = <<>> \/ (port[1] = ":" /\ \A i \in 2..Len(port) : IsDigit(port[i]))

\* func parseHost(host string) (string, error): the port check, and the
\* characters unescape(host, encodeHost) rejects.
parseHostOk(host) ==
  /\ LET i == LastIndex(host, <<":">>)
     IN i = 0 \/ validOptionalPort(SubSeq(host, i, Len(host)))
  /\ \A i \in 1..Len(host) :
        IsLetter(host[i]) \/ IsDigit(host[i])
        \/ host[i] \in {"!", "$", "&", "'", "(", ")", "*", "+", ",", ";", "=",
                        ":", "[", "]", "<", ">", "<dquote>", "-", "_", ".", "~"}

\* parseAuthority, once the authority is cut at its last "@" (i = 0: no "@").
authorityParts(i, host, userinfo) ==
  IF ~parseHostOk(host) THEN [err |-> TRUE, user |-> NoUser, host |-> <<>>]
  ELSE IF i = 0 THEN [err |-> FALSE, user |-> NoUser, host |-> host]
  ELSE IF ~validUserinfo(userinfo) THEN [err |-> TRUE, user |-> NoUser, host |-> <<>>]
  ELSE [err |-> FALSE, user |-> User(Cut(userinfo, <<":">>).before), host |-> host]

\* The authority cut at position i.
cutUser(authority, i) ==
  authorityParts(i,
    IF i = 0 THEN authority ELSE SubSeq(authority, i + 1, Len(authority)),
    IF i = 0 THEN <<>> ELSE SubSeq(authority, 1, i - 1))

\* func parseAuthority(authority string) (user *Userinfo, host string, err error)
parseAuthority(authority) == cutUser(authority, LastIndex(authority, <<"@">>))

\* parse, once the authority is cut off: user and host come from
\* parseAuthority, the rest is the path.  (if authority, rest = rest[2:] ...;
\* url.User, url.Host, err = parseAuthority(authority); setPath(rest))
parseFromAuthority(scheme, query, auth, path) ==
  IF auth.err THEN [err |-> TRUE, url |-> ZeroURL]
  ELSE [err |-> FALSE,
        url |-> [Scheme |-> scheme, User |-> auth.user, Host |-> auth.host,
                 Path |-> path, ForceQuery |-> query.forced,
                 RawQuery |-> query.rawQuery, Fragment |-> <<>>]]

\* The authority of a rest that begins with "//": up to the next "/".
cutAuthority(afterSlashes, j) ==
  [authority |-> IF j = 0 THEN afterSlashes ELSE SubSeq(afterSlashes, 1, j - 1),
   path |-> IF j = 0 THEN <<>> ELSE SubSeq(afterSlashes, j, Len(afterSlashes))]

\* parse, once scheme and query are cut off: an opaque URL, a rootless path
\* with a colon in its first segment (an error), an authority, or a path only.
parseFromRest(scheme, query, rest) ==
  IF ~HasPrefix(rest, <<"/">>) /\ scheme # <<>>
  \* an opaque URL: no host and no path
  THEN [err |-> FALSE,
        url |-> [ZeroURL EXCEPT !.Scheme = scheme, !.ForceQuery = query.forced,
                                !.RawQuery = query.rawQuery]]
  ELSE IF ~HasPrefix(rest, <<"/">>) /\ Contains(Cut(rest, <<"/">>).before, <<":">>)
  THEN [err |-> TRUE, url |-> ZeroURL]
  ELSE IF (scheme # <<>> \/ ~HasPrefix(rest, <<"/", "/", "/">>))
          /\ HasPrefix(rest, <<"/", "/">>)
  THEN parseFromAuthority(scheme, query,
         parseAuthority(cutAuthority(SubSeq(rest, 3, Len(rest)),
                                     Index(SubSeq(rest, 3, Len(rest)), <<"/">>)).authority),
         cutAuthority(SubSeq(rest, 3, Len(rest)),
                      Index(SubSeq(rest, 3, Len(rest)), <<"/">>)).path)
  ELSE parseFromAuthority(scheme, query,
         [err |-> FALSE, user |-> NoUser, host |-> <<>>], rest)

\* The query of the rest after the scheme: a lone trailing "?" forces an empty
\* query, otherwise the rest is cut at the first "?".
cutQuery(rest) ==
  IF Len(rest) > 0 /\ rest[Len(rest)] = "?" /\ Count(rest, <<"?">>) = 1
  THEN [rest |-> SubSeq(rest, 1, Len(rest) - 1), forced |-> TRUE, rawQuery |-> <<>>]
  ELSE [rest |-> Cut(rest, <<"?">>).before, forced |-> FALSE,
        rawQuery |-> Cut(rest, <<"?">>).after]

\* parse, once getScheme has run: the scheme is lower-cased.
parseFromScheme(sch, query) ==
  IF sch.err THEN [err |-> TRUE, url |-> ZeroURL]
  ELSE parseFromRest(ToLower(sch.scheme), query, query.rest)

\* The scheme and query of a raw URL.
schemeAndQuery(sch) == parseFromScheme(sch, cutQuery(sch.rest))

\* url.setFragment(frag), on the result of a parse that did not fail.
setFragment(parsed, frag) ==
  IF parsed.err THEN parsed ELSE [parsed EXCEPT !.url.Fragment = frag]

\* func Parse(rawURL string) (*URL, error): the fragment is cut off, the rest
\* goes through parse(u, false), and the fragment is set on the result.
parse(rawURL) ==
  setFragment(schemeAndQuery(getScheme(Cut(rawURL, <<"#">>).before, 1)),
              Cut(rawURL, <<"#">>).after)

(***************************************************************************)
(* roundrobin: identity of a backend                                       *)
(***************************************************************************)

\* func sameURL(a, b *url.URL) bool.  Its body is defined beside the load
\* balancer; the table of TestStickySession_getBackendURL fixes what it
\* compares: a legacy needle matches a candidate of equal scheme, host and
\* path when only the candidate, only the needle, or both carry a user.
sameURL(a, b) == a.Path = b.Path /\ a.Host = b.Host /\ a.Scheme = b.Scheme

\* getCleanServerURL copying the user-info as well.
getCleanServerURL_KeepsUser(serverURL) ==
  [ZeroURL EXCEPT !.Scheme = serverURL.Scheme,
                  !.User = serverURL.User,
                  !.Host = serverURL.Host,
                  !.Path = serverURL.Path]

\* getCleanServerURL copying the query as well.
getCleanServerURL_KeepsQuery(serverURL) ==
  [ZeroURL EXCEPT !.Scheme = serverURL.Scheme,
                  !.Host = serverURL.Host,
                  !.Path = serverURL.Path,
                  !.ForceQuery = serverURL.ForceQuery,
                  !.RawQuery = serverURL.RawQuery]

\* getCleanServerURL copying scheme and host only.
getCleanServerURL_DropsPath(serverURL) ==
  [ZeroURL EXCEPT !.Scheme = serverURL.Scheme,
                  !.Host = serverURL.Host]

\* func getCleanServerURL(serverURL *url.URL) *url.URL
getCleanServerURL(serverURL) ==
  [ZeroURL EXCEPT !.Scheme = serverURL.Scheme,
                  !.Host = serverURL.Host,
                  !.Path = serverURL.Path]

(***************************************************************************)
(* The backends and the cookie values the model draws from                 *)
(***************************************************************************)

http == <<"h", "t", "t", "p">>
https == <<"h", "t", "t", "p", "s">>

\* The backends: A, and A changed in one component at a time.
SrvA == [ZeroURL EXCEPT !.Scheme = http, !.Host = <<"a">>, !.Path = <<"/">>]
SrvAu == [SrvA EXCEPT !.User = User(<<"u">>)]
SrvAv == [SrvA EXCEPT !.User = User(<<"v">>)]
SrvAq == [SrvA EXCEPT !.ForceQuery = TRUE]
SrvB == [SrvA EXCEPT !.Host = <<"b">>]
SrvAs == [SrvA EXCEPT !.Scheme = https]
SrvAp == [SrvA EXCEPT !.Path = <<"/", "x">>]

URLs == {SrvA, SrvAu, SrvAv, SrvAq, SrvB, SrvAs, SrvAp}

\* A with a query, and A with a fragment: backends for StickBackend only.
SrvAk == [SrvA EXCEPT !.RawQuery = <<"k">>]
SrvAf == [SrvA EXCEPT !.Fragment = <<"f">>]
Backends == URLs \cup {SrvAk, SrvAf}

\* The identity of a backend: its address reduced to scheme, host and path.
Identity(u) == [ZeroURL EXCEPT !.Scheme = u.Scheme, !.Host = u.Host, !.Path = u.Path]

\* func hash(input string) string.  The digests of the backends' addresses
\* are computed once and looked up afterwards; any other input is digested
\* on the spot.
HashInputs == {String(u) : u \in URLs} \cup {String(Identity(u)) : u \in URLs}
HashMemo == [input \in HashInputs |-> FormatHex(HashString64(input))]
hash(input) ==
  IF input \in HashInputs THEN HashMemo[input] ELSE FormatHex(HashString64(input))

\* The token of a backend in the wire format: the digest of its identity.
TokenOf(u) == hash(String(Identity(u)))

\* Cookie values: the literal address of every backend (the legacy format),
\* one with an upper-case scheme, the token of every backend, the digest of
\* every backend's address with its user or query left in, and malformed
\* values with and without the scheme delimiter.
LegacyValues == {String(u) : u \in URLs} \cup {<<"H", "T", "T", "P", ":", "/", "/", "a", "/">>}
Tokens == {TokenOf(u) : u \in URLs}
RawDigests == {hash(String(u)) : u \in URLs}
Malformed ==
  { <<"n", "o", " ", "u", "r", "l", "!">>,
    <<":", "/", "/", "a">>,
    <<"h", "t", "t", "p", ":", "/", "/", "a", " ", "b", "/">> }
Values == LegacyValues \cup Tokens \cup RawDigests \cup Malformed

\* func Parse(rawURL string) (*URL, error).  The cookie values are parsed
\* once and looked up afterwards.
ParseMemo == [rawURL \in Values |-> parse(rawURL)]
Parse(rawURL) == IF rawURL \in Values THEN ParseMemo[rawURL] ELSE parse(rawURL)

(***************************************************************************)
(* Go pointers: nil, or the address of a URL value                          *)
(***************************************************************************)

NilURL == [nil |-> TRUE, v |-> ZeroURL]
Ptr(u) == [nil |-> FALSE, v |-> u]

(***************************************************************************)
(* net/http: request cookies and response cookies                          *)
(***************************************************************************)

\* A request: the cookies of its Cookie header in order, and whether reading
\* them fails for a reason other than absence (the default branch of the
\* switch in GetBackend).
Request(cookies, failure) == [cookies |-> cookies, failure |-> failure]

\* func (r *Request) Cookie(name string) (*Cookie, error): the first cookie of
\* that name, http.ErrNoCookie when there is none.
Cookie(req, name) ==
  LET named == {i \in 1..Len(req.cookies) : req.cookies[i].Name = name}
  IN IF req.failure THEN [err |-> "ErrRead", Value |-> <<>>]
     ELSE IF name = <<>> \/ named = {} THEN [err |-> "ErrNoCookie", Value |-> <<>>]
     ELSE [err |-> "nil",
           Value |-> req.cookies[CHOOSE i \in named : \A j \in named : i <= j].Value]

\* The bytes Cookie.String leaves out of a value and of a path.
sanitizeCookieValue(v) == SelectSeq(v, LAMBDA c : c \notin {";", "<dquote>", "<backslash>"})
sanitizeCookiePath(v) == SelectSeq(v, LAMBDA c : c # ";")

\* validCookieDomain, reduced to the characters of a domain name.
validCookieDomain(d) ==
  /\ d # <<>>
  /\ \A i \in 1..Len(d) : IsLetter(d[i]) \/ IsDigit(d[i]) \/ d[i] \in {"-", "."}

\* validCookieExpires: the year is 1601 or later.  A time is its year here,
\* and 0 is the zero time.
validCookieExpires(t) == t >= 1601

\* func (c *Cookie) String() string: the Set-Cookie header, as the attributes
\* it holds.  Path, Domain, Expires and Max-Age are written only when set and
\* valid; a leading dot of the domain is not written; a negative MaxAge is
\* written as Max-Age=0; SameSite is written for Lax (2), Strict (3) and
\* None (4).
cookieString(c) ==
  [Name |-> c.Name,
   Value |-> sanitizeCookieValue(c.Value),
   Path |-> sanitizeCookiePath(c.Path),
   Domain |-> IF ~validCookieDomain(c.Domain) THEN <<>>
              ELSE IF Head(c.Domain) = "." THEN Tail(c.Domain)
              ELSE c.Domain,
   Expires |-> IF validCookieExpires(c.Expires) THEN c.Expires ELSE 0,
   MaxAge |-> IF c.MaxAge > 0 THEN <<c.MaxAge>>
              ELSE IF c.MaxAge < 0 THEN <<0>>
              ELSE <<>>,
   Secure |-> c.Secure,
   HttpOnly |-> c.HttpOnly,
   SameSite |-> IF c.SameSite \in {2, 3, 4} THEN c.SameSite ELSE 0]

\* readSetCookies: the cookie a client reads from the header.  Max-Age=0
\* reads as MaxAge -1, an absent Max-Age as 0.
readSetCookie(h) ==
  [h EXCEPT !.MaxAge = IF h.MaxAge = <<>> THEN 0
                       ELSE IF h.MaxAge[1] <= 0 THEN -1
                       ELSE h.MaxAge[1]]

\* func SetCookie(w ResponseWriter, cookie *Cookie): adds the Set-Cookie
\* header of the cookie unless the cookie's name is invalid.  w is the list
\* of the cookies the response carries, as a client reads them.
SetCookie(w, cookie) ==
  IF cookie.Name = <<>> THEN w ELSE Append(w, readSetCookie(cookieString(cookie)))

(***************************************************************************)
(* roundrobin/stickysessions.go                                            *)
(***************************************************************************)

\* type CookieOptions struct; the zero value is CookieOptions{}.
\* Expires is a time (0 is the zero time), SameSite an http.SameSite number.
NoOptions ==
  [HTTPOnly |-> FALSE, Secure |-> FALSE, Path |-> <<>>, Domain |-> <<>>,
   Expires |-> 0, MaxAge |-> 0, SameSite |-> 0]

\* func NewStickySessionWithOptions(cookieName string, options CookieOptions)
NewStickySessionWithOptions(name, opts) == [cookieName |-> name, options |-> opts]

\* func NewStickySession(cookieName string) *StickySession
NewStickySession(name) == NewStickySessionWithOptions(name, NoOptions)

RECURSIVE firstSame_ReturnsNeedle(_, _, _)
\* The legacy loop returning the parsed cookie value instead of the candidate.
firstSame_ReturnsNeedle(needleURL, haystack, i) ==
  IF i > Len(haystack) THEN NilURL
  ELSE IF sameURL(needleURL, haystack[i]) THEN Ptr(needleURL)
  ELSE firstSame_ReturnsNeedle(needleURL, haystack, i + 1)

RECURSIVE firstSame_LastWins(_, _, _)
\* The legacy loop going on after a match, so that the last candidate that
\* matches is returned.
firstSame_LastWins(needleURL, haystack, i) ==
  IF i > Len(haystack) THEN NilURL
  ELSE IF ~firstSame_LastWins(needleURL, haystack, i + 1).nil
       THEN firstSame_LastWins(needleURL, haystack, i + 1)
  ELSE IF sameURL(needleURL, haystack[i]) THEN Ptr(haystack[i])
  ELSE NilURL

RECURSIVE firstSame(_, _, _)
\* for _, serverURL := range haystack { if sameURL(needleURL, serverURL) {
\* return serverURL } }; return nil
firstSame(needleURL, haystack, i) ==
  IF i > Len(haystack) THEN NilURL
  ELSE IF sameURL(needleURL, haystack[i]) THEN Ptr(haystack[i])
  ELSE firstSame(needleURL, haystack, i + 1)

RECURSIVE firstHashed_RawAddress(_, _, _)
\* The hashed loop digesting the candidate's whole address, user-info and
\* query included.
firstHashed_RawAddress(needle, haystack, i) ==
  IF i > Len(haystack) THEN NilURL
  ELSE IF needle = hash(String(haystack[i])) THEN Ptr(haystack[i])
  ELSE firstHashed_RawAddress(needle, haystack, i + 1)

RECURSIVE firstHashed_DefaultsToFirst(_, _, _)
\* The hashed loop returning the first candidate when none matches.
firstHashed_DefaultsToFirst(needle, haystack, i) ==
  IF i > Len(haystack) THEN Ptr(haystack[1])
  ELSE IF needle = hash(String(getCleanServerURL(haystack[i]))) THEN Ptr(haystack[i])
  ELSE firstHashed_DefaultsToFirst(needle, haystack, i + 1)

RECURSIVE firstHashed_HeadOnly(_, _, _)
\* The hashed loop stopping after the first candidate.
firstHashed_HeadOnly(needle, haystack, i) ==
  IF i > 1 THEN NilURL
  ELSE IF needle = hash(String(getCleanServerURL(haystack[i]))) THEN Ptr(haystack[i])
  ELSE firstHashed_HeadOnly(needle, haystack, i + 1)

RECURSIVE firstHashed_LastWins(_, _, _)
\* The hashed loop returning the last candidate of the token instead of the
\* first.
firstHashed_LastWins(needle, haystack, i) ==
  IF i > Len(haystack) THEN NilURL
  ELSE IF firstHashed_LastWins(needle, haystack, i + 1) # NilURL
       THEN firstHashed_LastWins(needle, haystack, i + 1)
  ELSE IF needle = hash(String(getCleanServerURL(haystack[i]))) THEN Ptr(haystack[i])
  ELSE NilURL

RECURSIVE firstHashed(_, _, _)
\* for _, serverURL := range haystack { if needle ==
\* hash(getCleanServerURL(serverURL).String()) { return serverURL } }; return nil
firstHashed(needle, haystack, i) ==
  IF i > Len(haystack) THEN NilURL
  ELSE IF needle = hash(String(getCleanServerURL(haystack[i]))) THEN Ptr(haystack[i])
  ELSE firstHashed(needle, haystack, i + 1)

\* getBackendURL without the branch for old cookies.
getBackendURL_HashedOnly(needle, haystack) ==
  IF Len(haystack) = 0 THEN NilURL
  ELSE firstHashed(needle, haystack, 1)

\* getBackendURL comparing an old cookie with the candidate's address as a
\* string.
getBackendURL_LegacyByString(needle, haystack) ==
  IF Len(haystack) = 0 THEN NilURL
  ELSE IF Contains(needle, <<":", "/", "/">>)
       THEN LET hits == {i \in 1..Len(haystack) : String(haystack[i]) = needle}
            IN IF hits = {} THEN NilURL
               ELSE Ptr(haystack[CHOOSE i \in hits : \A j \in hits : i <= j])
  ELSE firstHashed(needle, haystack, 1)

\* getBackendURL returning the first candidate for an old cookie that does
\* not parse.
getBackendURL_ParseFailureFirst(needle, haystack) ==
  IF Len(haystack) = 0 THEN NilURL
  ELSE IF Contains(needle, <<":", "/", "/">>)
       THEN LET parsed == Parse(needle)
            IN IF parsed.err THEN Ptr(haystack[1])
               ELSE firstSame(parsed.url, haystack, 1)
  ELSE firstHashed(needle, haystack, 1)

\* getBackendURL returning the address an old cookie holds when the pool is
\* empty.
getBackendURL_EmptyPoolTrustsCookie(needle, haystack) ==
  IF Len(haystack) = 0
  THEN IF Contains(needle, <<":", "/", "/">>) /\ ~Parse(needle).err
       THEN Ptr(Parse(needle).url)
       ELSE NilURL
  ELSE IF Contains(needle, <<":", "/", "/">>)
       THEN LET parsed == Parse(needle)
            IN IF parsed.err THEN NilURL
               ELSE firstSame(parsed.url, haystack, 1)
  ELSE firstHashed(needle, haystack, 1)

\* func (s *StickySession) getBackendURL(needle string, haystack []*url.URL) *url.URL
getBackendURL(needle, haystack) ==
  IF Len(haystack) = 0 THEN NilURL
  ELSE IF Contains(needle, <<":", "/", "/">>)
       \* old cookies, which hold the URL instead of its hash
       THEN LET parsed == Parse(needle)
            IN IF parsed.err THEN NilURL
               ELSE firstSame(parsed.url, haystack, 1)
  ELSE firstHashed(needle, haystack, 1)

\* GetBackend without the case for http.ErrNoCookie.
GetBackend_NoCookieIsError(s, req, servers) ==
  LET c == Cookie(req, s.cookieName)
  IN IF c.err # "nil" THEN [backend |-> NilURL, matched |-> FALSE, err |-> c.err]
     ELSE LET serverURL == getBackendURL(c.Value, servers)
          IN [backend |-> serverURL, matched |-> ~serverURL.nil, err |-> "nil"]

\* GetBackend returning no error in the default case.
GetBackend_ReadErrorSwallowed(s, req, servers) ==
  LET c == Cookie(req, s.cookieName)
  IN IF c.err # "nil" THEN [backend |-> NilURL, matched |-> FALSE, err |-> "nil"]
     ELSE LET serverURL == getBackendURL(c.Value, servers)
          IN [backend |-> serverURL, matched |-> ~serverURL.nil, err |-> "nil"]

\* GetBackend reporting a cookie that matches no server as an error.
GetBackend_NoMatchIsError(s, req, servers) ==
  LET c == Cookie(req, s.cookieName)
  IN IF c.err = "ErrNoCookie" THEN [backend |-> NilURL, matched |-> FALSE, err |-> "nil"]
     ELSE IF c.err # "nil" THEN [backend |-> NilURL, matched |-> FALSE, err |-> c.err]
     ELSE LET serverURL == getBackendURL(c.Value, servers)
          IN [backend |-> serverURL, matched |-> ~serverURL.nil,
              err |-> IF serverURL.nil THEN "ErrNoMatch" ELSE "nil"]

\* GetBackend reporting an empty pool as an error.
GetBackend_EmptyPoolIsError(s, req, servers) ==
  LET c == Cookie(req, s.cookieName)
  IN IF c.err = "ErrNoCookie" THEN [backend |-> NilURL, matched |-> FALSE, err |-> "nil"]
     ELSE IF c.err # "nil" THEN [backend |-> NilURL, matched |-> FALSE, err |-> c.err]
     ELSE IF Len(servers) = 0 THEN [backend |-> NilURL, matched |-> FALSE, err |-> "ErrNoServers"]
     ELSE LET serverURL == getBackendURL(c.Value, servers)
          IN [backend |-> serverURL, matched |-> ~serverURL.nil, err |-> "nil"]

\* func (s *StickySession) GetBackend(req *http.Request, servers []*url.URL)
\*   (*url.URL, bool, error)
GetBackend(s, req, servers) ==
  LET c == Cookie(req, s.cookieName)
  IN IF c.err = "ErrNoCookie" THEN [backend |-> NilURL, matched |-> FALSE, err |-> "nil"]
     ELSE IF c.err # "nil" THEN [backend |-> NilURL, matched |-> FALSE, err |-> c.err]
     ELSE LET serverURL == getBackendURL(c.Value, servers)
          IN [backend |-> serverURL, matched |-> ~serverURL.nil, err |-> "nil"]

\* StickBackend digesting the backend's whole address.
StickBackend_RawAddress(s, backend, w) ==
  LET opt == s.options
      cp == IF opt.Path # <<>> THEN opt.Path ELSE <<"/">>
  IN SetCookie(w,
       [Name |-> s.cookieName,
        Value |-> hash(String(backend)),
        Path |-> cp,
        Domain |-> opt.Domain,
        Expires |-> opt.Expires,
        MaxAge |-> opt.MaxAge,
        Secure |-> opt.Secure,
        HttpOnly |-> opt.HTTPOnly,
        SameSite |-> opt.SameSite])

\* StickBackend writing the backend's address itself, the format of the old
\* cookies, instead of its digest.
StickBackend_LiteralAddress(s, backend, w) ==
  LET opt == s.options
      cp == IF opt.Path # <<>> THEN opt.Path ELSE <<"/">>
  IN SetCookie(w,
       [Name |-> s.cookieName,
        Value |-> String(getCleanServerURL(backend)),
        Path |-> cp,
        Domain |-> opt.Domain,
        Expires |-> opt.Expires,
        MaxAge |-> opt.MaxAge,
        Secure |-> opt.Secure,
        HttpOnly |-> opt.HTTPOnly,
        SameSite |-> opt.SameSite])

\* StickBackend without the default of the cookie's path.
StickBackend_NoDefaultPath(s, backend, w) ==
  LET opt == s.options
  IN SetCookie(w,
       [Name |-> s.cookieName,
        Value |-> hash(String(getCleanServerURL(backend))),
        Path |-> opt.Path,
        Domain |-> opt.Domain,
        Expires |-> opt.Expires,
        MaxAge |-> opt.MaxAge,
        Secure |-> opt.Secure,
        HttpOnly |-> opt.HTTPOnly,
        SameSite |-> opt.SameSite])

\* func (s *StickySession) StickBackend(backend *url.URL, w *http.ResponseWriter):
\* the response's Set-Cookie headers after the call.
StickBackend(s, backend, w) ==
  LET opt == s.options
      cp == IF opt.Path # <<>> THEN opt.Path ELSE <<"/">>
  IN SetCookie(w,
       [Name |-> s.cookieName,
        Value |-> hash(String(getCleanServerURL(backend))),
        Path |-> cp,
        Domain |-> opt.Domain,
        Expires |-> opt.Expires,
        MaxAge |-> opt.MaxAge,
        Secure |-> opt.Secure,
        HttpOnly |-> opt.HTTPOnly,
        SameSite |-> opt.SameSite])

(***************************************************************************)
(* What the calls leave in the values they are given by pointer            *)
(***************************************************************************)

\* getCleanServerURL clearing the fields of its argument in place.
serverURLAfterClean_InPlace(serverURL) ==
  [serverURL EXCEPT !.User = NoUser, !.ForceQuery = FALSE,
                    !.RawQuery = <<>>, !.Fragment = <<>>]

\* *serverURL after getCleanServerURL(serverURL): the function builds a new
\* url.URL from three fields it reads and assigns no field of its argument.
serverURLAfterClean(serverURL) == serverURL

\* The candidates after getBackendURL(needle, haystack).  The hashed loop
\* hands each candidate up to the first match to getCleanServerURL; the
\* legacy loop hands them to sameURL, which compares; no statement assigns
\* to haystack or through one of its pointers.
haystackAfterGetBackendURL(needle, haystack) ==
  IF Len(haystack) = 0 \/ Contains(needle, <<":", "/", "/">>) THEN haystack
  ELSE [i \in 1..Len(haystack) |->
          IF \E j \in 1..(i - 1) : needle = hash(String(getCleanServerURL(haystack[j])))
          THEN haystack[i]
          ELSE serverURLAfterClean(haystack[i])]

\* The pool after GetBackend(req, servers).
serversAfterGetBackend(s, req, servers) ==
  IF Cookie(req, s.cookieName).err # "nil" THEN servers
  ELSE haystackAfterGetBackendURL(Cookie(req, s.cookieName).Value, servers)

(***************************************************************************)
(* The values the model draws from                                         *)
(***************************************************************************)

\* Longest pool.
MaxPool == 2

\* Every pool of at most MaxPool backends, in every order.
Pools == UNION {[1..n -> URLs] : n \in 0..MaxPool}

Range(f) == {f[i] : i \in DOMAIN f}

\* The cookie names.
NameTest == <<"t", "e", "s", "t">>
NameOther == <<"o", "t", "h", "e", "r">>

\* The sessions: NewStickySession("test"), and three with options.
Sessions ==
  { NewStickySession(NameTest),
    NewStickySessionWithOptions(NameTest,
      [NoOptions EXCEPT !.Path = <<"/", "f", "o", "o">>, !.Secure = TRUE, !.MaxAge = -20]),
    NewStickySessionWithOptions(NameOther,
      [NoOptions EXCEPT !.HTTPOnly = TRUE, !.Domain = <<"e", ".", "o", "r", "g">>,
                        !.Expires = 1955, !.SameSite = 4]),
    NewStickySessionWithOptions(NameTest,
      [NoOptions EXCEPT !.MaxAge = 30, !.SameSite = 2]) }

\* The requests: no cookie at all, a failing cookie read, one cookie of either
\* name with any value, and a cookie of each name together.
Requests ==
  {Request(<<>>, FALSE), Request(<<>>, TRUE)}
  \cup {Request(<<[Name |-> n, Value |-> v]>>, FALSE) : n \in {NameTest, NameOther}, v \in Values}
  \cup {Request(<<[Name |-> NameOther, Value |-> hash(String(SrvB))],
                  [Name |-> NameTest, Value |-> v]>>, FALSE) : v \in {hash(String(SrvA)), String(SrvAu)}}

\* The request of a client that sends back the cookies of a response.
EchoRequest(w) ==
  Request([i \in 1..Len(w) |-> [Name |-> w[i].Name, Value |-> w[i].Value]], FALSE)

(***************************************************************************)
(* State                                                                   *)
(***************************************************************************)

VARIABLES
  sticky,   \* the StickySession: cookieName and options
  servers,  \* the pool the caller owns and passes to each call
  index,    \* the fallback selector's rotation position
  last,     \* the last call: its arguments, its results, the response's cookies
  inflight  \* per caller, the call it is in when calls run concurrently

vars == <<sticky, servers, index, last, inflight>>

NoResult == [backend |-> NilURL, matched |-> FALSE, err |-> "nil"]

\* The goroutines that call into one session at a time.
Callers == {1, 2}

\* A caller that is in no call.  In a call it holds the operation, the
\* request, the pool it was called with (snapshot), the cookie value or the
\* address parsed from it, the loop's position, and at the end the result or
\* the backend it stamped and the response's cookies.
NotCalling ==
  [pc |-> "idle", op |-> "none", req |-> Request(<<>>, FALSE), snapshot |-> <<>>,
   needle |-> <<>>, needleURL |-> ZeroURL, i |-> 0, res |-> NoResult,
   backend |-> NilURL, w |-> <<>>]

NoCalls == [c \in Callers |-> NotCalling]

\* Before any call.  Of a call, last records the operation, the request, the
\* result of GetBackend, the backend given to StickBackend, the backend the
\* request was served by, the status, and the response's cookies w.  When the
\* request sends back the cookie of the response before it, issuer is the
\* backend that response was stamped for and after tells what produced it:
\* "stick" (a call of StickBackend), "hit" (a request served by affinity),
\* "heal" (a request whose cookie was the token of a backend that is not in
\* the pool, served by the fallback selection) or "miss" (any other request
\* served by the fallback selection).  gone is the backend removed last since
\* the pool last grew.  kept is the first call of StickBackend of a sequence
\* of calls: its backend, the cookies it wrote, and whether a call of
\* StickBackend for another backend and a call of GetBackend have followed.
NoStamp == [set |-> FALSE, backend |-> ZeroURL, w |-> <<>>, others |-> FALSE, gets |-> FALSE]

Idle ==
  [op |-> "none", req |-> Request(<<>>, FALSE), res |-> NoResult,
   arg |-> NilURL, served |-> NilURL, status |-> 0, w |-> <<>>,
   issuer |-> NilURL, after |-> "none", gone |-> NilURL, kept |-> NoStamp,
   upgrade |-> FALSE]

\* Whether req sends back the cookies of the last response.
IsEcho(req) == last.w # <<>> /\ req = EchoRequest(last.w)

TypeOK ==
  /\ sticky \in Sessions
  /\ servers \in Pools
  /\ index \in 0..(MaxPool - 1)
  /\ last.op \in {"none", "GetBackend", "StickBackend", "ServeHTTP"}
  /\ last.after \in {"none", "stick", "hit", "heal", "miss"}
  /\ last.upgrade \in BOOLEAN
  /\ \A c \in Callers : inflight[c].pc \in {"idle", "legacy", "hashed", "done"}

(***************************************************************************)
(* Calls of the two operations on a pool the caller holds                  *)
(***************************************************************************)

Init ==
  /\ sticky \in Sessions
  /\ servers \in Pools
  /\ index = 0
  /\ last = Idle
  /\ inflight = NoCalls

\* GetBackend has just resolved a cookie in the old format, a literal
\* address, to backend.
ResolvedLegacy(backend) ==
  /\ last.op = "GetBackend"
  /\ Cookie(last.req, sticky.cookieName).err = "nil"
  /\ Contains(Cookie(last.req, sticky.cookieName).Value, <<":", "/", "/">>)
  /\ last.res = [backend |-> Ptr(backend), matched |-> TRUE, err |-> "nil"]

\* A caller runs GetBackend(req, servers).  The pool after the call is what
\* the call leaves in the candidates it was given.  upgrade tells that the
\* cookie of the request was stamped for the backend an old cookie had
\* resolved to.
CallGetBackend(req) ==
  /\ last' = [Idle EXCEPT !.op = "GetBackend", !.req = req,
                          !.res = GetBackend(sticky, req, servers),
                          !.issuer = IF IsEcho(req) THEN last.arg ELSE NilURL,
                          !.after = IF IsEcho(req) THEN "stick" ELSE "none",
                          !.upgrade = IsEcho(req) /\ last.upgrade]
  /\ servers' = serversAfterGetBackend(sticky, req, servers)
  /\ UNCHANGED <<sticky, index, inflight>>

\* A caller runs StickBackend(backend, w) on a fresh response.  arg is the
\* backend as the call leaves it.
CallStickBackend(backend) ==
  /\ last' = [Idle EXCEPT !.op = "StickBackend",
                          !.arg = Ptr(serverURLAfterClean(backend)),
                          !.w = StickBackend(sticky, backend, <<>>),
                          !.upgrade = ResolvedLegacy(backend)]
  /\ UNCHANGED <<sticky, servers, index, inflight>>

Next ==
  \/ \E req \in Requests \cup {EchoRequest(last.w)} : CallGetBackend(req)
  \/ \E backend \in URLs : CallStickBackend(backend)

Spec == Init /\ [][Next]_vars

(***************************************************************************)
(* The load balancer around the two operations: it owns the pool, resolves *)
(* each request's affinity against the pool, falls back to its own         *)
(* selection when there is none, and stamps the response with the backend  *)
(* it chose.                                                               *)
(***************************************************************************)

InitLB ==
  /\ sticky \in Sessions
  /\ servers = <<>>
  /\ index = 0
  /\ last = Idle
  /\ inflight = NoCalls

\* The pool without its i-th backend.
RemoveAt(pool, i) == [k \in 1..(Len(pool) - 1) |-> IF k < i THEN pool[k] ELSE pool[k + 1]]

\* lb.UpsertServer(u): a backend of an identity the pool does not hold yet is
\* appended; one whose identity is in the pool adds no second entry.  A change
\* of the pool starts a new round of observation.
UpsertServer(u) ==
  /\ Len(servers) < MaxPool
  /\ \A i \in 1..Len(servers) : ~sameURL(servers[i], u)
  /\ servers' = Append(servers, u)
  /\ last' = Idle
  /\ UNCHANGED <<sticky, index, inflight>>

\* lb.RemoveServer(u): the backend of u's identity leaves the pool; the
\* rotation position stays within the pool.
RemoveServer(u) ==
  /\ \E i \in 1..Len(servers) :
        /\ sameURL(servers[i], u)
        /\ servers' = RemoveAt(servers, i)
        /\ last' = [Idle EXCEPT !.gone = Ptr(servers[i])]
  /\ index' = IF index < Len(servers) - 1 THEN index ELSE 0
  /\ UNCHANGED <<sticky, inflight>>

\* The fallback selection: the backend at the rotation position.
NextServer == servers[index + 1]

\* The balancer serves one request: affinity first, the fallback selection
\* otherwise (also after a cookie read error), an error status when the pool
\* is empty, and the cookie of the chosen backend on the response.
ServeHTTP(req) ==
  LET res == GetBackend(sticky, req, servers)
      seen == [Idle EXCEPT !.op = "ServeHTTP", !.req = req, !.res = res,
                           !.gone = last.gone,
                           !.issuer = IF IsEcho(req) THEN last.served ELSE NilURL,
                           !.after = IF ~IsEcho(req) THEN "none"
                                     ELSE IF last.res.matched THEN "hit"
                                     ELSE IF Cookie(last.req, sticky.cookieName).err = "nil"
                                             /\ Cookie(last.req, sticky.cookieName).Value \in Tokens
                                          THEN "heal"
                                     ELSE "miss"]
  IN /\ IF res.matched
        THEN /\ last' = [seen EXCEPT !.served = res.backend, !.status = 200,
                                     !.w = StickBackend(sticky, res.backend.v, <<>>)]
             /\ index' = index
        ELSE IF Len(servers) = 0
        THEN /\ last' = [seen EXCEPT !.status = 500]
             /\ index' = index
        ELSE /\ last' = [seen EXCEPT !.served = Ptr(NextServer), !.status = 200,
                                     !.w = StickBackend(sticky, NextServer, <<>>)]
             /\ index' = (index + 1) % Len(servers)
     /\ servers' = serversAfterGetBackend(sticky, req, servers)
     /\ UNCHANGED <<sticky, inflight>>

NextLB ==
  \/ \E u \in URLs : UpsertServer(u)
  \/ \E u \in URLs : RemoveServer(u)
  \/ \E req \in Requests \cup {EchoRequest(last.w)} : ServeHTTP(req)

SpecLB == InitLB /\ [][NextLB]_vars

(***************************************************************************)
(* Sequences of calls on one session: StickBackend again and again, for    *)
(* any backend, with calls of GetBackend in between.  The first stamp of   *)
(* the sequence is kept for comparison.                                    *)
(***************************************************************************)

\* The pools of a sequence of calls: empty, or one backend.
SmallPools == {pool \in Pools : Len(pool) <= 1}

InitRepeat ==
  /\ sticky \in Sessions
  /\ servers \in SmallPools
  /\ index = 0
  /\ last = Idle
  /\ inflight = NoCalls

\* What is kept after a call of StickBackend(backend) that wrote w.
KeepStamp(backend, w) ==
  IF ~last.kept.set
  THEN [set |-> TRUE, backend |-> backend, w |-> w, others |-> FALSE, gets |-> FALSE]
  ELSE [last.kept EXCEPT !.others = @ \/ backend # last.kept.backend]

\* StickBackend stamping the backend of the call before.
RepeatStickBackend_StaleBackend(backend) ==
  /\ last' = [Idle EXCEPT !.op = "StickBackend", !.arg = Ptr(backend),
                          !.w = StickBackend(sticky,
                                  IF last.arg.nil THEN backend ELSE last.arg.v, <<>>),
                          !.kept = KeepStamp(backend,
                                     StickBackend(sticky,
                                       IF last.arg.nil THEN backend ELSE last.arg.v, <<>>))]
  /\ UNCHANGED <<sticky, servers, index, inflight>>

\* A caller runs StickBackend(backend, w) on a fresh response, once more.
RepeatStickBackend(backend) ==
  /\ last' = [Idle EXCEPT !.op = "StickBackend", !.arg = Ptr(backend),
                          !.w = StickBackend(sticky, backend, <<>>),
                          !.kept = KeepStamp(backend, StickBackend(sticky, backend, <<>>))]
  /\ UNCHANGED <<sticky, servers, index, inflight>>

\* A caller runs GetBackend(req, servers) between two calls of StickBackend.
InterleaveGetBackend(req) ==
  /\ last' = [Idle EXCEPT !.op = "GetBackend", !.req = req,
                          !.res = GetBackend(sticky, req, servers),
                          !.issuer = IF IsEcho(req) THEN last.arg ELSE NilURL,
                          !.after = IF IsEcho(req) THEN "stick" ELSE "none",
                          !.kept = IF last.kept.set
                                   THEN [last.kept EXCEPT !.gets = TRUE]
                                   ELSE last.kept]
  /\ servers' = serversAfterGetBackend(sticky, req, servers)
  /\ UNCHANGED <<sticky, index, inflight>>

NextRepeat ==
  \/ \E backend \in Backends : RepeatStickBackend(backend)
  \/ \E req \in {Request(<<>>, FALSE), EchoRequest(last.w)} : InterleaveGetBackend(req)

SpecRepeat == InitRepeat /\ [][NextRepeat]_vars

(***************************************************************************)
(* Concurrent calls on one session while the pool changes.  A caller takes *)
(* the pool as it is when it calls and hands it to GetBackend; the call    *)
(* then goes through its loop one candidate at a time, and between any two *)
(* of its steps the other caller may step and the pool may change.         *)
(***************************************************************************)

\* The servers an operator adds and removes, and the requests of the traffic.
ConcURLs == {SrvA, SrvAu, SrvB}
ConcRequests ==
  { Request(<<>>, FALSE),
    Request(<<[Name |-> NameTest, Value |-> hash(String(SrvA))]>>, FALSE),
    Request(<<[Name |-> NameTest, Value |-> hash(String(SrvB))]>>, FALSE),
    Request(<<[Name |-> NameTest, Value |-> String(SrvAu)]>>, FALSE) }

InitConc ==
  /\ sticky = NewStickySession(NameTest)
  /\ servers = <<>>
  /\ index = 0
  /\ last = Idle
  /\ inflight = NoCalls

\* The operator adds a server, as UpsertServer does.
AddServer(u) ==
  /\ Len(servers) < MaxPool
  /\ \A i \in 1..Len(servers) : ~sameURL(servers[i], u)
  /\ servers' = Append(servers, u)
  /\ UNCHANGED <<sticky, index, last, inflight>>

\* The operator removes a server, as RemoveServer does.
DropServer(u) ==
  /\ \E i \in 1..Len(servers) :
        /\ sameURL(servers[i], u)
        /\ servers' = RemoveAt(servers, i)
  /\ UNCHANGED <<sticky, index, last, inflight>>

\* GetBackend(req, snapshot) up to its loop: the cookie is read, the empty
\* pool and the parse failure return at once, and the value decides the loop.
enterGetBackend(req, snapshot) ==
  LET base == [NotCalling EXCEPT !.op = "GetBackend", !.req = req, !.snapshot = snapshot]
  IN IF Cookie(req, sticky.cookieName).err = "ErrNoCookie"
     THEN [base EXCEPT !.pc = "done"]
     ELSE IF Cookie(req, sticky.cookieName).err # "nil"
     THEN [base EXCEPT !.pc = "done",
                       !.res = [backend |-> NilURL, matched |-> FALSE,
                                err |-> Cookie(req, sticky.cookieName).err]]
     ELSE IF Len(snapshot) = 0
     THEN [base EXCEPT !.pc = "done"]
     ELSE IF Contains(Cookie(req, sticky.cookieName).Value, <<":", "/", "/">>)
     THEN IF Parse(Cookie(req, sticky.cookieName).Value).err
          THEN [base EXCEPT !.pc = "done"]
          ELSE [base EXCEPT !.pc = "legacy", !.i = 1,
                            !.needleURL = Parse(Cookie(req, sticky.cookieName).Value).url]
     ELSE [base EXCEPT !.pc = "hashed", !.i = 1,
                       !.needle = Cookie(req, sticky.cookieName).Value]

\* Caller c takes the pool as it is and calls GetBackend(req, snapshot).
BeginGetBackend(c, req) ==
  /\ inflight[c].pc = "idle"
  /\ inflight' = [inflight EXCEPT ![c] = enterGetBackend(req, servers)]
  /\ UNCHANGED <<sticky, servers, index, last>>

\* One pass of the loop over the candidates haystack for the call: the end of
\* the candidates returns nil, a match returns the candidate, anything else
\* moves on.
loopOver(call, haystack) ==
  IF call.i > Len(haystack) THEN [call EXCEPT !.pc = "done"]
  ELSE IF \/ call.pc = "legacy" /\ sameURL(call.needleURL, haystack[call.i])
          \/ call.pc = "hashed"
             /\ call.needle = hash(String(getCleanServerURL(haystack[call.i])))
       THEN [call EXCEPT !.pc = "done",
                         !.res = [backend |-> Ptr(haystack[call.i]), matched |-> TRUE,
                                  err |-> "nil"]]
  ELSE [call EXCEPT !.i = @ + 1]

\* The loop of getBackendURL ranging over the pool as it is now.
LoopGetBackendURL_LivePool(c) ==
  /\ inflight[c].pc \in {"legacy", "hashed"}
  /\ inflight' = [inflight EXCEPT ![c] = loopOver(inflight[c], servers)]
  /\ UNCHANGED <<sticky, servers, index, last>>

\* for _, serverURL := range haystack: the loop of getBackendURL ranges over
\* the pool the call was given.
LoopGetBackendURL(c) ==
  /\ inflight[c].pc \in {"legacy", "hashed"}
  /\ inflight' = [inflight EXCEPT ![c] = loopOver(inflight[c], inflight[c].snapshot)]
  /\ UNCHANGED <<sticky, servers, index, last>>

\* Caller c runs StickBackend(backend, w) on its own response.
ConcStickBackend(c, backend) ==
  /\ inflight[c].pc = "idle"
  /\ inflight' = [inflight EXCEPT ![c] =
                    [NotCalling EXCEPT !.pc = "done", !.op = "StickBackend",
                                       !.backend = Ptr(backend),
                                       !.w = StickBackend(sticky, backend, <<>>)]]
  /\ UNCHANGED <<sticky, servers, index, last>>

\* Caller c has its result and is free for the next call.
Return(c) ==
  /\ inflight[c].pc = "done"
  /\ inflight' = [inflight EXCEPT ![c] = NotCalling]
  /\ UNCHANGED <<sticky, servers, index, last>>

NextConc ==
  \/ \E u \in ConcURLs : AddServer(u)
  \/ \E u \in ConcURLs : DropServer(u)
  \/ \E c \in Callers, req \in ConcRequests : BeginGetBackend(c, req)
  \/ \E c \in Callers : LoopGetBackendURL(c)
  \/ \E c \in Callers, backend \in ConcURLs : ConcStickBackend(c, backend)
  \/ \E c \in Callers : Return(c)

SpecConc == InitConc /\ [][NextConc]_vars

(***************************************************************************)
(* Properties                                                              *)
(***************************************************************************)

\* The cookie GetBackend reads from the last request.
Presented == Cookie(last.req, sticky.cookieName)

\* Equal scheme, host and path: the same backend identity.
SameIdentity(a, b) == a.Scheme = b.Scheme /\ a.Host = b.Host /\ a.Path = b.Path

\* The result "backend u, matched, no error".
Found(u) == [backend |-> Ptr(u), matched |-> TRUE, err |-> "nil"]

\* The least element of a non-empty set of positions.
Least(S) == CHOOSE i \in S : \A j \in S : i <= j

\* The cookie of StickBackend(A) has come back to GetBackend, with a pool that
\* holds A.
RoundTripCase ==
  /\ last.op = "GetBackend"
  /\ last.after = "stick"
  /\ last.issuer.v \in Range(servers)

\* C1 as stated: for every backend A and every pool that contains A, the
\* cookie value written by StickBackend(A), presented to GetBackend with that
\* pool, yields (A, matched, no error).
C1_RoundTripAnyPool == RoundTripCase => last.res = Found(last.issuer.v)

\* C1, amended: the same for every pool in which no candidate of A's scheme,
\* host and path stands before A; in general the round trip yields the first
\* candidate of A's scheme, host and path.
C1_RoundTrip ==
  RoundTripCase =>
    LET same == {i \in 1..Len(servers) : SameIdentity(servers[i], last.issuer.v)}
    IN /\ last.res = Found(servers[Least(same)])
       /\ servers[Least(same)] = last.issuer.v => last.res = Found(last.issuer.v)

\* A round trip for a backend with user-info that stands second in its pool.
C1_Witness ==
  /\ RoundTripCase
  /\ Len(servers) = 2
  /\ servers[2] = last.issuer.v
  /\ last.issuer.v.User.present
  /\ last.res = Found(last.issuer.v)

\* C2: while backend A is in the pool, every request that carries A's
\* affinity cookie, the hashed token of A or the literal address of A, is
\* resolved to A and served by A, whatever the rotation position and the other
\* servers of the pool are.
C2_Stickiness ==
  last.op = "ServeHTTP" /\ Presented.err = "nil" =>
    \A i \in 1..Len(servers) :
       Presented.Value \in {TokenOf(servers[i]), String(servers[i])} =>
         /\ last.res = Found(servers[i])
         /\ last.served = Ptr(servers[i])
         /\ last.status = 200

\* A request with the literal address of the second backend of the pool,
\* which carries user-info, served by it after the rotation has moved on.
C2_Witness ==
  /\ last.op = "ServeHTTP"
  /\ Len(servers) = 2
  /\ index = 1
  /\ servers[2].User.present
  /\ Presented.err = "nil"
  /\ Presented.Value = String(servers[2])
  /\ last.served = Ptr(servers[2])

\* C3: a request whose cookie is the token of a backend that is no longer in
\* the pool gets (none, false, no error) from GetBackend; with a backend left
\* in the pool the fallback selection serves it from the pool and the response
\* carries that backend's token; and the next request, which carries the new
\* cookie, is resolved to that backend and served by it.
C3_SelfHeal ==
  /\ ( /\ last.op = "ServeHTTP"
       /\ Presented.err = "nil"
       /\ Presented.Value \in Tokens
       /\ \A i \in 1..Len(servers) : TokenOf(servers[i]) # Presented.Value )
     => /\ last.res = NoResult
        /\ Len(servers) > 0 =>
             /\ last.served.v \in Range(servers)
             /\ Len(last.w) = 1
             /\ last.w[1].Name = sticky.cookieName
             /\ last.w[1].Value = TokenOf(last.served.v)
  /\ (last.op = "ServeHTTP" /\ last.after = "heal")
     => /\ last.res = Found(last.issuer.v)
        /\ last.served = last.issuer

\* The request after the healing one: it carries the new cookie and is served
\* by B, the one backend left.
C3_Witness ==
  /\ last.op = "ServeHTTP"
  /\ last.after = "heal"
  /\ servers = <<SrvB>>
  /\ last.res = Found(SrvB)
  /\ Presented.Value = TokenOf(SrvB)

\* C4: GetBackend returns a backend only if it is an element of the pool passed
\* to the call, and matched is true exactly when a backend is returned.
C4_ResultInPool ==
  last.op = "GetBackend" =>
    /\ last.res.matched <=> ~last.res.backend.nil
    /\ ~last.res.backend.nil => last.res.backend.v \in Range(servers)

\* A legacy cookie with user-info that the matched candidate does not carry:
\* the candidate of the pool is returned, not the address parsed from the cookie.
C4_Witness ==
  /\ last.op = "GetBackend"
  /\ last.res.matched
  /\ Presented.err = "nil"
  /\ Presented.Value = String(SrvAu)
  /\ last.res.backend = Ptr(SrvA)

\* C5: when the request carries no cookie of the configured name, GetBackend
\* returns (none, false, no error) for every pool, empty or not.
C5_NoCookie ==
  ( /\ last.op = "GetBackend"
    /\ ~last.req.failure
    /\ \A i \in 1..Len(last.req.cookies) : last.req.cookies[i].Name # sticky.cookieName )
  => last.res = NoResult

\* A request whose only cookie has another name and holds the token of a
\* backend of the pool.
C5_Witness ==
  /\ last.op = "GetBackend"
  /\ Len(last.req.cookies) = 1
  /\ last.req.cookies[1].Name # sticky.cookieName
  /\ \E i \in 1..Len(servers) : last.req.cookies[1].Value = TokenOf(servers[i])
  /\ last.res = NoResult

\* C6: GetBackend returns an error exactly when reading the cookie fails for a
\* reason other than absence; it then returns no backend and matched = false.
C6_ErrorOnlyOnReadFailure ==
  last.op = "GetBackend" =>
    /\ last.res.err # "nil" <=> last.req.failure
    /\ last.res.err # "nil" => last.res.backend.nil /\ ~last.res.matched

\* A failing cookie read with a pool that is not empty.
C6_Witness ==
  /\ last.op = "GetBackend"
  /\ last.req.failure
  /\ Len(servers) > 0
  /\ last.res = [backend |-> NilURL, matched |-> FALSE, err |-> "ErrRead"]

\* The scheme delimiter.
Delimiter == <<":", "/", "/">>

\* GetBackend has read a cookie value without the scheme delimiter.
HashedCase ==
  /\ last.op = "GetBackend"
  /\ Presented.err = "nil"
  /\ ~Contains(Presented.Value, Delimiter)

\* C7: for a cookie value without "://", GetBackend returns the first candidate
\* whose token equals the value, none when there is no such candidate; a
\* candidate with user-info or a query is matched by the token of its address
\* stripped of them and not by the digest of its address with them.
C7_HashedResolution ==
  HashedCase =>
    LET hits == {i \in 1..Len(servers) : TokenOf(servers[i]) = Presented.Value}
    IN /\ hits = {} => last.res = NoResult
       /\ hits # {} => last.res = Found(servers[Least(hits)])
       /\ \A i \in 1..Len(servers) :
             /\ servers[i].User.present \/ servers[i].ForceQuery
             /\ Presented.Value = hash(String(servers[i]))
             => last.res.backend # Ptr(servers[i])

\* The token of the stripped address resolves to a candidate with user-info
\* that stands second in the pool.
C7_Witness ==
  /\ HashedCase
  /\ Len(servers) = 2
  /\ servers[2].User.present
  /\ last.res = Found(servers[2])

\* GetBackend has read a cookie value with the scheme delimiter that parses.
LegacyCase ==
  /\ last.op = "GetBackend"
  /\ Presented.err = "nil"
  /\ Contains(Presented.Value, Delimiter)
  /\ ~Parse(Presented.Value).err

\* C8 as stated: for a legacy cookie value GetBackend returns the first
\* candidate whose scheme, host, path and user-info all equal those of the
\* parsed value; a candidate whose user-info differs is not matched.
C8_LegacyComparesUser ==
  LegacyCase =>
    LET needleURL == Parse(Presented.Value).url
        hits == {i \in 1..Len(servers) :
                   SameIdentity(needleURL, servers[i]) /\ needleURL.User = servers[i].User}
    IN /\ hits = {} => last.res = NoResult
       /\ hits # {} => last.res = Found(servers[Least(hits)])

\* C8, amended: for a legacy cookie value GetBackend returns the first
\* candidate whose scheme, host and path equal those of the parsed value;
\* user-info is not compared.
C8_LegacyResolution ==
  LegacyCase =>
    LET needleURL == Parse(Presented.Value).url
        hits == {i \in 1..Len(servers) : SameIdentity(needleURL, servers[i])}
    IN /\ hits = {} => last.res = NoResult
       /\ hits # {} => last.res = Found(servers[Least(hits)])

\* A legacy cookie without user-info resolves to a candidate with user-info
\* that stands second in the pool.
C8_Witness ==
  /\ LegacyCase
  /\ Len(servers) = 2
  /\ ~Parse(Presented.Value).url.User.present
  /\ servers[2].User.present
  /\ last.res = Found(servers[2])

\* C9: a legacy cookie value resolves to a candidate whenever their scheme,
\* host and path are equal, with user-info only in the candidate, only in the
\* cookie, or in both; it resolves to no backend when no candidate has its
\* scheme, host and path.
C9_LegacyIgnoresUser ==
  LegacyCase =>
    LET needleURL == Parse(Presented.Value).url
    IN /\ (\E u \in Range(servers) : SameIdentity(needleURL, u))
            => last.res.matched /\ SameIdentity(needleURL, last.res.backend.v)
       /\ (\A u \in Range(servers) : ~SameIdentity(needleURL, u))
            => last.res = NoResult

\* A legacy cookie with user-info resolves to the one candidate, which has
\* none.
C9_Witness ==
  /\ LegacyCase
  /\ Parse(Presented.Value).url.User.present
  /\ servers = <<SrvA>>
  /\ last.res = Found(SrvA)

\* C10: a cookie value without the scheme delimiter that is no candidate's
\* token gets (none, false, no error) from GetBackend, and with a backend in
\* the pool the fallback selection serves the request from the pool.
C10_NoMatchNoError ==
  ( /\ last.op = "ServeHTTP"
    /\ Presented.err = "nil"
    /\ ~Contains(Presented.Value, Delimiter)
    /\ \A i \in 1..Len(servers) : TokenOf(servers[i]) # Presented.Value )
  => /\ last.res = NoResult
     /\ Len(servers) > 0 => last.status = 200 /\ last.served.v \in Range(servers)

\* A malformed cookie value, served by the second backend of the pool.
C10_Witness ==
  /\ last.op = "ServeHTTP"
  /\ Presented.err = "nil"
  /\ Presented.Value \in Malformed
  /\ ~Contains(Presented.Value, Delimiter)
  /\ Len(servers) = 2
  /\ last.res = NoResult
  /\ last.served = Ptr(servers[2])

\* GetBackend has read a cookie value with the scheme delimiter that does not
\* parse.
UnparsableCase ==
  /\ last.op = "GetBackend"
  /\ Presented.err = "nil"
  /\ Contains(Presented.Value, Delimiter)
  /\ Parse(Presented.Value).err

\* C11: a cookie value that contains "://" and does not parse as an address
\* gets (none, false, no error) from GetBackend for every pool; the parse
\* failure is neither returned as an error nor followed by a comparison of the
\* value with the candidates' tokens.
C11_ParseFailureSwallowed ==
  UnparsableCase =>
    /\ last.res = NoResult
    /\ \A i \in 1..Len(servers) : Presented.Value # TokenOf(servers[i])

\* A cookie value with a space in its host, and a pool that holds the backend
\* of that scheme and path.
C11_Witness ==
  /\ UnparsableCase
  /\ Presented.Value = <<"h", "t", "t", "p", ":", "/", "/", "a", " ", "b", "/">>
  /\ Len(servers) = 2
  /\ SrvA \in Range(servers)
  /\ last.res = NoResult

\* C12: with an empty pool GetBackend returns (none, false, no error) for
\* every cookie value it reads: a token, a literal address, or a malformed
\* value.
C12_EmptyPool ==
  ( /\ last.op = "GetBackend"
    /\ Presented.err = "nil"
    /\ Len(servers) = 0 )
  => last.res = NoResult

\* The literal address of a backend, read with an empty pool.
C12_Witness ==
  /\ last.op = "GetBackend"
  /\ servers = <<>>
  /\ Presented.err = "nil"
  /\ Presented.Value = String(SrvA)
  /\ last.res = NoResult

\* C13: with every server removed from the pool, a request that carries a
\* cookie, the token or the address of a removed backend or a malformed value,
\* gets (none, false, no error) from GetBackend, is served by no backend, and
\* is answered by the balancer with an error status.
C13_AllServersRemoved ==
  ( /\ last.op = "ServeHTTP"
    /\ Presented.err = "nil"
    /\ Len(servers) = 0 )
  => /\ last.res = NoResult
     /\ last.served.nil
     /\ last.status >= 400
     /\ ~last.gone.nil => last.served # last.gone

\* The token of A in a request that arrives after A, the last server, has
\* been removed.
C13_Witness ==
  /\ last.op = "ServeHTTP"
  /\ servers = <<>>
  /\ last.gone = Ptr(SrvA)
  /\ Presented.err = "nil"
  /\ Presented.Value = TokenOf(SrvA)
  /\ last.status = 500

\* C14: the response of every served request, whether the backend was chosen
\* by the cookie or by the fallback selection and whether or not the request
\* carried a cookie, has exactly one affinity cookie; its name is the
\* configured name and its value is the token of the backend that served the
\* request.
C14_StampOnEveryResponse ==
  last.op = "ServeHTTP" /\ ~last.served.nil =>
    /\ Len(last.w) = 1
    /\ last.w[1].Name = sticky.cookieName
    /\ last.w[1].Value = TokenOf(last.served.v)

\* A request served by the cookie it carries: the response repeats the token
\* of the backend, which has user-info.
C14_Witness ==
  /\ last.op = "ServeHTTP"
  /\ last.res.matched
  /\ last.served.v.User.present
  /\ Len(last.w) = 1
  /\ last.w[1].Value = Presented.Value
  /\ last.w[1].Value = TokenOf(last.served.v)

\* Whether the i-th candidate matches the cookie value GetBackend has read: by
\* scheme, host and path for a value with the scheme delimiter, by token for
\* any other.
Matches(i) ==
  IF Contains(Presented.Value, Delimiter)
  THEN ~Parse(Presented.Value).err /\ SameIdentity(Parse(Presented.Value).url, servers[i])
  ELSE Presented.Value = TokenOf(servers[i])

\* C15: when several candidates of the pool match the cookie value, GetBackend
\* returns the one that stands first in the pool, for a literal address and
\* for a token alike.
C15_FirstMatchWins ==
  last.op = "GetBackend" /\ Presented.err = "nil" =>
    LET hits == {i \in 1..Len(servers) : Matches(i)}
    IN Cardinality(hits) >= 2 => last.res = Found(servers[Least(hits)])

\* The literal address of A with the pool [u@A, A]: both match, and the first
\* is returned although the second is the address the cookie spells out.
C15_Witness ==
  /\ last.op = "GetBackend"
  /\ Presented.err = "nil"
  /\ Presented.Value = String(SrvA)
  /\ servers = <<SrvAu, SrvA>>
  /\ last.res = Found(SrvAu)

\* The attributes of the one cookie StickBackend has written, MaxAge aside:
\* the configured name, the path "/" when none is configured and the
\* configured path otherwise, and the configured Domain, Expires, Secure,
\* HTTPOnly and SameSite.
StampedAsConfigured ==
  /\ Len(last.w) = 1
  /\ last.w[1].Name = sticky.cookieName
  /\ last.w[1].Path = (IF sticky.options.Path = <<>> THEN <<"/">> ELSE sticky.options.Path)
  /\ last.w[1].Domain = sticky.options.Domain
  /\ last.w[1].Expires = sticky.options.Expires
  /\ last.w[1].Secure = sticky.options.Secure
  /\ last.w[1].HttpOnly = sticky.options.HTTPOnly
  /\ last.w[1].SameSite = sticky.options.SameSite

\* C17 as stated: the cookie StickBackend writes has the configured name, the
\* path "/" or the configured path, and the configured Domain, Expires,
\* MaxAge, Secure, HTTPOnly and SameSite unchanged.
C17_OptionsUnchanged ==
  last.op = "StickBackend" =>
    /\ StampedAsConfigured
    /\ last.w[1].MaxAge = sticky.options.MaxAge

\* C17, amended: the same, except that a negative MaxAge reaches the response
\* as Max-Age=0, which a client reads as MaxAge -1; a MaxAge that is zero or
\* positive is unchanged.
C17_Options ==
  last.op = "StickBackend" =>
    /\ StampedAsConfigured
    /\ last.w[1].MaxAge = (IF sticky.options.MaxAge < 0 THEN -1 ELSE sticky.options.MaxAge)

\* The session with Path "/foo", Secure and MaxAge -20 has stamped a response.
C17_Witness ==
  /\ last.op = "StickBackend"
  /\ sticky.options.MaxAge = -20
  /\ Len(last.w) = 1
  /\ last.w[1].Path = <<"/", "f", "o", "o">>
  /\ last.w[1].Secure
  /\ last.w[1].MaxAge = -1

\* StickBackend has been called after the first stamp of the sequence.
StampedAgain ==
  /\ last.op = "StickBackend"
  /\ last.kept.set
  /\ Len(last.kept.w) = 1

\* C16: for two backends of equal scheme, host and path StickBackend writes
\* the same cookie value, whatever the user-info, the query and the fragment
\* of either are.
C16_CredentialIndependence ==
  StampedAgain /\ SameIdentity(last.kept.backend, last.arg.v) =>
    /\ Len(last.w) = 1
    /\ last.w[1].Value = last.kept.w[1].Value

\* A stamped with a user first, and with a fragment now.
C16_Witness ==
  /\ StampedAgain
  /\ last.kept.backend = SrvAu
  /\ last.arg = Ptr(SrvAf)
  /\ last.w[1].Value = last.kept.w[1].Value
  /\ last.w[1].Value = TokenOf(SrvA)

Reorderings(pool) ==
  { [i \in 1..Len(pool) |-> pool[p[i]]] :
      p \in {q \in [1..Len(pool) -> 1..Len(pool)] :
               \A i, j \in 1..Len(pool) : q[i] = q[j] => i = j} }

\* No two candidates of the pool have equal scheme, host and path.
OnePerIdentity(pool) ==
  \A i, j \in 1..Len(pool) : SameIdentity(pool[i], pool[j]) => i = j

\* For a pool with one candidate per identity, the result of GetBackend is the
\* result for the same request with the pool in any other order, and a token
\* of the pool resolves to its backend wherever that stands.
ReorderingStable ==
  last.op = "GetBackend" /\ OnePerIdentity(servers) =>
    /\ \A pool \in Reorderings(servers) : GetBackend(sticky, last.req, pool) = last.res
    /\ \A i \in 1..Len(servers) :
          Presented.err = "nil" /\ Presented.Value = TokenOf(servers[i])
          => last.res = Found(servers[i])

\* A call of GetBackend that follows a call for the same request returns what
\* that call returned.
RepetitionStable ==
  last.op = "GetBackend" /\ last'.op = "GetBackend" /\ last'.req = last.req
  => last'.res = last.res

\* C19: for a pool that has no two candidates of equal scheme, host and path,
\* GetBackend returns the same backend for a cookie value under every
\* reordering of the pool and on every repetition of the call.
C19_StableUnderReordering == [](ReorderingStable) /\ [][RepetitionStable]_vars

\* The token of a backend with user-info that stands last in a pool of two
\* identities: it is found there, and first in the other order.
C19_Witness ==
  /\ last.op = "GetBackend"
  /\ Len(servers) = 2
  /\ OnePerIdentity(servers)
  /\ servers[2].User.present
  /\ Presented.err = "nil"
  /\ Presented.Value = TokenOf(servers[2])
  /\ last.res = Found(servers[2])
  /\ GetBackend(sticky, last.req, <<servers[2], servers[1]>>) = last.res

C21_Frame ==
  [][ /\ sticky' = sticky
      /\ last'.op = "GetBackend" => servers' = servers /\ last'.w = <<>>
      /\ last'.op = "StickBackend"
         => /\ servers' = servers
            /\ Len(last'.w) = 1
            /\ \A backend \in URLs : CallStickBackend(backend) => last'.arg = Ptr(backend)
    ]_vars

\* GetBackend has gone past a candidate with user-info to the match behind
\* it, and the candidate has its user-info still.
C21_Witness ==
  /\ last.op = "GetBackend"
  /\ servers = <<SrvAu, SrvB>>
  /\ Presented.err = "nil"
  /\ Presented.Value = TokenOf(SrvB)
  /\ last.res = Found(SrvB)

\* C22: with servers added and removed while calls are under way, and with
\* GetBackend and StickBackend under way together on one session, every call
\* of GetBackend ends with what GetBackend run alone returns for its request
\* and the pool it was called with, and a backend it returns is a member of
\* that pool; every StickBackend writes the one cookie of its backend.
C22_Concurrency ==
  \A c \in Callers :
    inflight[c].pc = "done" =>
      /\ inflight[c].op = "GetBackend"
         => /\ inflight[c].res = GetBackend(sticky, inflight[c].req, inflight[c].snapshot)
            /\ inflight[c].res.matched
               => inflight[c].res.backend.v \in Range(inflight[c].snapshot)
      /\ inflight[c].op = "StickBackend"
         => /\ Len(inflight[c].w) = 1
            /\ inflight[c].w[1].Value = TokenOf(inflight[c].backend.v)

\* A call that was given the pool [u@A, B] ends with B after B has left the
\* pool, while the other caller has stamped a response.
C22_Witness ==
  /\ inflight[1].pc = "done"
  /\ inflight[1].op = "GetBackend"
  /\ inflight[1].snapshot = <<SrvAu, SrvB>>
  /\ inflight[1].res = Found(SrvB)
  /\ servers = <<SrvAu>>
  /\ inflight[2].pc = "done"
  /\ inflight[2].op = "StickBackend"

\* The characters of a lowercase hex string.
LowerHexChars ==
  {"0", "1", "2", "3", "4", "5", "6", "7", "8", "9", "a", "b", "c", "d", "e", "f"}

\* A value in the hashed format: one to sixteen lowercase hex digits, hence
\* without the scheme delimiter.
IsHashedFormat(value) ==
  /\ Len(value) \in 1..16
  /\ \A j \in 1..Len(value) : value[j] \in LowerHexChars
  /\ ~Contains(value, Delimiter)

\* C23: every cookie value StickBackend writes is a lowercase hex string
\* without "://"; when such a cookie comes back, GetBackend reads a value
\* without the delimiter and resolves it as a token (the first candidate whose
\* token equals it, none otherwise), never as a legacy address.
C23_StampIsHashed ==
  /\ last.op = "StickBackend"
     => /\ Len(last.w) = 1
        /\ IsHashedFormat(last.w[1].Value)
        /\ last.w[1].Value \notin LegacyValues
  /\ last.op = "GetBackend" /\ last.after = "stick"
     => /\ HashedCase
        /\ ~LegacyCase
        /\ IsHashedFormat(Presented.Value)
        /\ LET hits == {i \in 1..Len(servers) : TokenOf(servers[i]) = Presented.Value}
           IN /\ hits = {} => last.res = NoResult
              /\ hits # {} => last.res = Found(servers[Least(hits)])

\* The cookie stamped for a backend with user-info has come back and is
\* resolved as a token to that backend, the second of its pool.
C23_Witness ==
  /\ last.op = "GetBackend"
  /\ last.after = "stick"
  /\ last.issuer = Ptr(SrvAu)
  /\ servers = <<SrvB, SrvAu>>
  /\ IsHashedFormat(Presented.Value)
  /\ last.res = Found(SrvAu)

\* A cookie in the old format has resolved to a backend of the pool,
\* StickBackend has stamped that backend, and the stamped cookie has come
\* back to GetBackend with the pool unchanged.
UpgradeCase ==
  /\ last.op = "GetBackend"
  /\ last.after = "stick"
  /\ last.upgrade

\* C24: if a legacy cookie resolves to backend X against pool P, the cookie
\* StickBackend(X) writes resolves against P to X again, matched and without
\* error, also when P holds several candidates that differ only in
\* user-info; and the new cookie is in the hashed format.
C24_UpgradeKeepsBinding ==
  UpgradeCase =>
    /\ last.issuer.v \in Range(servers)
    /\ last.res = Found(last.issuer.v)
    /\ IsHashedFormat(Presented.Value)

\* The pool holds two candidates that differ only in user-info; the old
\* cookie resolved to the first of them and so does the cookie stamped in its
\* place.
C24_Witness ==
  /\ UpgradeCase
  /\ servers = <<SrvAu, SrvA>>
  /\ last.issuer = Ptr(SrvAu)
  /\ last.res = Found(SrvAu)

====
